---- MODULE Spec2Model ----
(***************************************************************************)
(* pitch-op: arithmetic over pitches and intervals in pitch-array format   *)
(* [step, alteration, octave].  Every operation of src/index.js is a pure  *)
(* function; the model applies each of them to inputs drawn from bounded   *)
(* sets and records the arguments (a as passed, aPost as the first tuple   *)
(* is after the call), the result, the fifths-space pair that was handed   *)
(* to the codec and the number of codec calls made.                        *)
(*                                                                         *)
(* JavaScript values are records [t, n, e]: t is the type tag, n the       *)
(* numeric payload of a number or boolean, e the elements of an array.     *)
(***************************************************************************)
EXTENDS Integers, Sequences, FiniteSets, TLC

VARIABLES last, a, aPost, b, num, result, coord, calls

vars == <<last, a, aPost, b, num, result, coord, calls>>

\* ---------------------------------------------------------------- bounds
MaxStep == 7
MaxAlt == 1
MaxOct == 1
MaxNum == 2

\* ------------------------------------------------------ JavaScript values
Null == [t |-> "null", n |-> 0, e |-> <<>>]
Undefined == [t |-> "undefined", n |-> 0, e |-> <<>>]
NaN == [t |-> "NaN", n |-> 0, e |-> <<>>]
Num(i) == [t |-> "num", n |-> i, e |-> <<>>]
Bool(x) == [t |-> "bool", n |-> IF x THEN 1 ELSE 0, e |-> <<>>]
Arr(s) == [t |-> "array", n |-> 0, e |-> s]

IsNum(v) == v.t = "num"

\* truthiness, as tested by `p ? .. : ..`, `!a`, `i && ..`
Truthy(v) ==
  CASE v.t = "null" -> FALSE
    [] v.t = "undefined" -> FALSE
    [] v.t = "NaN" -> FALSE
    [] v.t = "num" -> v.n # 0
    [] v.t = "bool" -> v.n = 1
    [] OTHER -> TRUE

\* ToNumber, the coercion behind the arithmetic operators and unary +
ToNumber(v) ==
  CASE v.t = "num" -> v
    [] v.t = "null" -> Num(0)
    [] v.t = "bool" -> Num(v.n)
    [] OTHER -> NaN

JsAdd(x, y) ==
  LET p == ToNumber(x)
      q == ToNumber(y)
  IN IF IsNum(p) /\ IsNum(q) THEN Num(p.n + q.n) ELSE NaN

JsSub(x, y) ==
  LET p == ToNumber(x)
      q == ToNumber(y)
  IN IF IsNum(p) /\ IsNum(q) THEN Num(p.n - q.n) ELSE NaN

JsMul(x, y) ==
  LET p == ToNumber(x)
      q == ToNumber(y)
  IN IF IsNum(p) /\ IsNum(q) THEN Num(p.n * q.n) ELSE NaN

\* the % operator: the remainder takes the sign of the dividend
JsRem(x, y) ==
  LET p == ToNumber(x)
      q == ToNumber(y)
  IN IF IsNum(p) /\ IsNum(q) /\ q.n > 0
       THEN IF p.n >= 0 THEN Num(p.n % q.n) ELSE Num(-((-p.n) % q.n))
       ELSE NaN

\* v[i] for an array v: a missing index reads undefined
Idx(v, i) ==
  IF v.t = "array" /\ i + 1 \in 1..Len(v.e) THEN v.e[i + 1] ELSE Undefined

\* table[k] for a table of numbers and a computed key k
Lookup(table, k) ==
  IF IsNum(k) /\ k.n + 1 \in 1..Len(table) THEN Num(table[k.n + 1]) ELSE Undefined

\* ------------------------------------------------------------- constants
SEMITONES == <<0, 2, 4, 5, 7, 9, 11>>

\* ----------------------------------------------------------- input sets
Octs == {Null} \cup {Num(i) : i \in -MaxOct..MaxOct}
Alts == {Num(i) : i \in -MaxAlt..MaxAlt}
Scalars == {Num(i) : i \in -MaxNum..MaxNum}

\* tuples whose first field is any small integer
RawTuple == {Arr(<<Num(s), al, o>>) : s \in -MaxStep..MaxStep, al \in Alts, o \in Octs}
\* tuples in pitch-array format: the step is one of the seven letters
PitchTuple == {Arr(<<Num(s), al, o>>) : s \in 0..(Len(SEMITONES) - 1), al \in Alts, o \in Octs}

RawArg == RawTuple \cup {Null}
PitchArg == PitchTuple \cup {Null}

\* ------------------------------------------- the fifths-space codec
\* The collaborator required as 'pitch-fifths': fifths(p) encodes a
\* pitch-array tuple as a pair [fifths, octaves] and fifths.toPitch decodes
\* it.  A null octave is carried through as null in both directions, and
\* decoding an encoded tuple gives the tuple back.
BASES == << <<0, 0>>, <<2, -1>>, <<4, -2>>, <<-1, 1>>, <<1, 0>>, <<3, -1>>, <<5, -2>> >>
STEPS == <<3, 0, 4, 1, 5, 2, 6>>

fifths(p) ==
  LET base == BASES[Idx(p, 0).n + 1]
      alt == Idx(p, 1)
      f == JsAdd(Num(base[1]), JsMul(Num(7), alt))
      o == IF Idx(p, 2).t = "null"
             THEN Null
             ELSE JsSub(JsAdd(Idx(p, 2), Num(base[2])), JsMul(Num(4), alt))
  IN Arr(<<f, o>>)

toPitch(c) ==
  LET f == Idx(c, 0).n
      step == STEPS[((f + 1) % 7) + 1]
      alt == (f + 1) \div 7
      oct == IF Idx(c, 1).t = "null"
               THEN Null
               ELSE JsSub(JsAdd(Idx(c, 1), Num(4 * alt)), Num(BASES[step + 1][2]))
  IN Arr(<<Num(step), Num(alt), oct>>)

\* ------------------------------------------------- the pure operations
\* op.pitchClass
pitchClass(p) == IF Truthy(p) THEN Arr(<<Idx(p, 0), Idx(p, 1), Null>>) ELSE Null

\* variant: writes the octave into the argument and returns it
setOctaveInPlace(n, p) ==
  [value |-> IF Truthy(p) THEN Arr(<<Idx(p, 0), Idx(p, 1), n>>) ELSE Null,
   arg |-> IF Truthy(p) THEN Arr(<<Idx(p, 0), Idx(p, 1), n>>) ELSE p]

\* the unary function returned by op.setOctave(num): the value it returns
\* (a new array literal) and its argument as the call leaves it
setOctaveFn(n, p) ==
  [value |-> IF Truthy(p) THEN Arr(<<Idx(p, 0), Idx(p, 1), n>>) ELSE Null,
   arg |-> p]

\* op.setOctave(num, p): two arguments, so it returns op.setOctave(num)(p)
setOctave(n, p) == setOctaveFn(n, p)

\* op.simplify = op.setOctave(0)
simplify(p) == setOctaveFn(Num(0), p)

\* variant: sets the octave whether or not one is present
setDefaultOctaveAlways(octave, i) ==
  IF Truthy(i) THEN Arr(<<Idx(i, 0), Idx(i, 1), octave>>) ELSE i

\* the unary function returned by op.setDefaultOctave(octave)
setDefaultOctaveFn(octave, i) ==
  IF Truthy(i) /\ Idx(i, 2).t = "null"
    THEN Arr(<<Idx(i, 0), Idx(i, 1), octave>>)
    ELSE i

\* op.setDefaultOctave(octave, pitch)
setDefaultOctave(octave, pitch) == setDefaultOctaveFn(octave, pitch)

\* variant: a null octave is not coerced to 0 but poisons the sum
semitonesStrict(i) ==
  IF Truthy(i)
    THEN IF Idx(i, 2).t = "null"
           THEN NaN
           ELSE JsAdd(JsAdd(Lookup(SEMITONES, JsRem(Idx(i, 0), Num(7))), Idx(i, 1)),
                      JsMul(Num(12), Idx(i, 2)))
    ELSE Null

\* op.semitones
semitones(i) ==
  IF Truthy(i)
    THEN JsAdd(JsAdd(Lookup(SEMITONES, JsRem(Idx(i, 0), Num(7))), Idx(i, 1)),
               JsMul(Num(12), Idx(i, 2)))
    ELSE Null

\* variant: the descending flag is ignored
comparatorAscendingOnly(descending, x, y) == JsSub(semitones(x), semitones(y))

\* the function returned by op.comparator(descending), applied to (x, y)
comparator(descending, x, y) ==
  IF Truthy(descending)
    THEN JsSub(semitones(y), semitones(x))
    ELSE JsSub(semitones(x), semitones(y))

\* variant: the octave is null only when both operands' octaves are null
addNullBoth(x, y) ==
  LET f == JsAdd(Idx(x, 0), Idx(y, 0))
      octaves == IF Idx(x, 1).t = "null" /\ Idx(y, 1).t = "null"
                   THEN Null
                   ELSE JsAdd(Idx(x, 1), Idx(y, 1))
  IN Arr(<<f, octaves>>)

\* function add: fifths-space pairs
add(x, y) ==
  LET f == JsAdd(Idx(x, 0), Idx(y, 0))
      octaves == IF Idx(x, 1).t = "null" \/ Idx(y, 1).t = "null"
                   THEN Null
                   ELSE JsAdd(Idx(x, 1), Idx(y, 1))
  IN Arr(<<f, octaves>>)

\* variant: first minus second
subtractSwapped(x, y) ==
  LET f == JsSub(Idx(x, 0), Idx(y, 0))
      octaves == IF Idx(x, 1).t # "null" /\ Idx(y, 1).t # "null"
                   THEN JsSub(Idx(x, 1), Idx(y, 1))
                   ELSE Null
  IN Arr(<<f, octaves>>)

\* function subtract: fifths-space pairs, second minus first
subtract(x, y) ==
  LET f == JsSub(Idx(y, 0), Idx(x, 0))
      octaves == IF Idx(x, 1).t # "null" /\ Idx(y, 1).t # "null"
                   THEN JsSub(Idx(y, 1), Idx(x, 1))
                   ELSE Null
  IN Arr(<<f, octaves>>)

\* variant: only the fifths are scaled
multiplyFifthsOnly(m, x) == Arr(<<JsMul(m, Idx(x, 0)), Idx(x, 1)>>)

\* function multiply: a scalar times a fifths-space pair
multiply(m, x) ==
  Arr(<<JsMul(m, Idx(x, 0)),
        IF Idx(x, 1).t = "null" THEN Null ELSE JsMul(m, Idx(x, 1))>>)

\* One call of op.add / op.subtract / op.multiply: the value returned, the
\* pair handed to fifths.toPitch and the number of codec calls made.
Ret(r, c, k) == [result |-> r, coord |-> c, calls |-> k]

\* variant: only the first operand is tested for absence
opAddUnguarded(x, y) ==
  IF ~Truthy(x)
    THEN Ret(Null, Undefined, 0)
    ELSE LET c == add(fifths(x), fifths(y)) IN Ret(toPitch(c), c, 3)

opAdd(x, y) ==
  IF ~Truthy(x) \/ ~Truthy(y)
    THEN Ret(Null, Undefined, 0)
    ELSE LET c == add(fifths(x), fifths(y)) IN Ret(toPitch(c), c, 3)

opSubtract(x, y) ==
  IF ~Truthy(x) \/ ~Truthy(y)
    THEN Ret(Null, Undefined, 0)
    ELSE LET c == subtract(fifths(x), fifths(y)) IN Ret(toPitch(c), c, 3)

opMultiply(m, x) ==
  IF ~Truthy(x)
    THEN Ret(Null, Undefined, 0)
    ELSE LET c == multiply(ToNumber(m), fifths(x)) IN Ret(toPitch(c), c, 2)

\* ------------------------------------------------------------ the machine
Init ==
  /\ last = "init"
  /\ a = Undefined
  /\ aPost = Undefined
  /\ b = Undefined
  /\ num = Undefined
  /\ result = Undefined
  /\ coord = Undefined
  /\ calls = 0

\* a call that does not touch the codec
Pure(name, x, y, n, r) ==
  /\ last' = name
  /\ a' = x
  /\ aPost' = x
  /\ b' = y
  /\ num' = n
  /\ result' = r
  /\ coord' = Undefined
  /\ calls' = 0

\* a call that may go through the codec
Coded(name, x, y, n, ret) ==
  /\ last' = name
  /\ a' = x
  /\ aPost' = x
  /\ b' = y
  /\ num' = n
  /\ result' = ret.result
  /\ coord' = ret.coord
  /\ calls' = ret.calls

\* a call of the function made by op.setOctave
Octave(name, x, n, call) ==
  /\ last' = name
  /\ a' = x
  /\ aPost' = call.arg
  /\ b' = Undefined
  /\ num' = n
  /\ result' = call.value
  /\ coord' = Undefined
  /\ calls' = 0

\* Each behaviour is one call of the library: the calls share no state, so
\* a call starts from the initial state and its outcome is final.
Idle == last = "init"

PitchClass ==
  /\ Idle
  /\ \E p \in RawArg :
       Pure("pitchClass", p, Undefined, Undefined, pitchClass(p))

SetOctave ==
  /\ Idle
  /\ \E n \in Octs, p \in RawArg :
       Octave("setOctave", p, n, setOctave(n, p))

SetOctavePartial ==
  /\ Idle
  /\ \E n \in Octs, p \in RawArg :
       Octave("setOctavePartial", p, n, setOctaveFn(n, p))

Simplify ==
  /\ Idle
  /\ \E p \in RawArg :
       Octave("simplify", p, Undefined, simplify(p))

SetDefaultOctave ==
  /\ Idle
  /\ \E n \in Octs, p \in RawArg :
       Pure("setDefaultOctave", p, Undefined, n, setDefaultOctave(n, p))

SetDefaultOctavePartial ==
  /\ Idle
  /\ \E n \in Octs, p \in RawArg :
       Pure("setDefaultOctavePartial", p, Undefined, n, setDefaultOctaveFn(n, p))

Semitones ==
  /\ Idle
  /\ \E p \in RawArg :
       Pure("semitones", p, Undefined, Undefined, semitones(p))

Comparator ==
  /\ Idle
  /\ \E d \in {Undefined, Bool(TRUE), Bool(FALSE)}, x \in RawTuple, y \in RawTuple :
       Pure("comparator", x, y, d, comparator(d, x, y))

Add ==
  /\ Idle
  /\ \E x \in PitchArg, y \in PitchArg :
       Coded("add", x, y, Undefined, opAdd(x, y))

Subtract ==
  /\ Idle
  /\ \E x \in PitchArg, y \in PitchArg :
       Coded("subtract", x, y, Undefined, opSubtract(x, y))

Multiply ==
  /\ Idle
  /\ \E m \in Scalars, x \in PitchArg :
       Coded("multiply", x, Undefined, m, opMultiply(m, x))

Next ==
  \/ PitchClass
  \/ SetOctave
  \/ SetOctavePartial
  \/ Simplify
  \/ SetDefaultOctave
  \/ SetDefaultOctavePartial
  \/ Semitones
  \/ Comparator
  \/ Add
  \/ Subtract
  \/ Multiply

Spec == Init /\ [][Next]_vars

TypeOK ==
  /\ last \in {"init", "pitchClass", "setOctave", "setOctavePartial", "simplify",
               "setDefaultOctave", "setDefaultOctavePartial", "semitones",
               "comparator", "add", "subtract", "multiply"}
  /\ calls \in 0..3

\* ------------------------------------------------------------ properties
IsTuple(v) == v.t = "array"
Oct(v) == Idx(v, 2)
HasOct(v) == IsTuple(v) /\ IsNum(Oct(v))
NoOct(v) == IsTuple(v) /\ Oct(v).t = "null"
IntFields(v) == IsTuple(v) /\ IsNum(Idx(v, 0)) /\ IsNum(Idx(v, 1)) /\ IsNum(Idx(v, 2))
Tuple3(x, y, z) == Arr(<<Num(x), Num(y), Num(z)>>)

\* the semitone height as the documented formula gives it, with the
\* mathematical modulo
Height(v) == SEMITONES[(Idx(v, 0).n % 7) + 1] + Idx(v, 1).n + 12 * Idx(v, 2).n

\* the first field is one the % operator maps into 0..6
RemInTable(v) == Idx(v, 0).n >= 0 \/ Idx(v, 0).n % 7 = 0

\* C1 (as stated): for all non-null tuples a and b, add(a, subtract(a, b))
\* is a tuple equal to b.
C1_AddSubtractIsB ==
  (last = "subtract" /\ IsTuple(a) /\ IsTuple(b)) => opAdd(a, result).result = b

\* C1 (amended): add(a, subtract(a, b)) equals b when a's octave is an
\* integer or b's octave is null; when a's octave is null the unset octave
\* propagates and the result is b with its octave slot null.
C1_AddSubtract ==
  (last = "subtract" /\ IsTuple(a) /\ IsTuple(b)) =>
    opAdd(a, result).result =
      IF NoOct(a) THEN Arr(<<Idx(b, 0), Idx(b, 1), Null>>) ELSE b

C1_Witness ==
  /\ last = "subtract"
  /\ NoOct(a)
  /\ HasOct(b)
  /\ opAdd(a, result).result = Arr(<<Idx(b, 0), Idx(b, 1), Null>>)

\* C2: the unset octave propagates: the octave of the fifths-space pair
\* computed by add and by subtract is null if either operand's octave is
\* null and otherwise the sum (b's minus a's) of the operands' fifths-space
\* octaves; the octave computed by multiply is null exactly when a's is; the
\* tuple returned has a null octave in exactly the same cases.
C2_NullOctavePropagates ==
  /\ (last \in {"add", "subtract"} /\ IsTuple(a) /\ IsTuple(b)) =>
       /\ Idx(coord, 1) =
            IF NoOct(a) \/ NoOct(b)
              THEN Null
              ELSE IF last = "add"
                     THEN Num(Idx(fifths(a), 1).n + Idx(fifths(b), 1).n)
                     ELSE Num(Idx(fifths(b), 1).n - Idx(fifths(a), 1).n)
       /\ (Oct(result) = Null) <=> (NoOct(a) \/ NoOct(b))
  /\ (last = "multiply" /\ IsTuple(a)) =>
       /\ (Idx(coord, 1) = Null) <=> NoOct(a)
       /\ (Oct(result) = Null) <=> NoOct(a)

C2_Witness ==
  /\ last = "add"
  /\ NoOct(a)
  /\ HasOct(b)
  /\ Idx(coord, 1) = Null
  /\ Oct(result) = Null

\* C3: an absent pitch is propagated as null by every operation, and the
\* codec is not called.
C3_NullPropagates ==
  /\ (last \in {"add", "subtract"} /\ (a = Null \/ b = Null)) =>
       (result = Null /\ calls = 0 /\ coord = Undefined)
  /\ (last \in {"multiply", "pitchClass", "setOctave", "setOctavePartial", "simplify",
                "setDefaultOctave", "setDefaultOctavePartial", "semitones"}
        /\ a = Null) =>
       (result = Null /\ calls = 0 /\ coord = Undefined)

C3_Witness ==
  /\ last = "add"
  /\ IsTuple(a)
  /\ b = Null
  /\ result = Null
  /\ calls = 0

\* C4: for every tuple p of three integers, the first of either sign,
\* semitones(p) = SEMITONES[p[0] mod 7] + p[1] + 12 * p[2], the modulo taken
\* into 0..6.
C4_SemitonesFormula ==
  (last = "semitones" /\ IntFields(a)) => result = Num(Height(a))

\* C5: for pitches x, y with integer fields and semitones(x) < semitones(y),
\* comparator()(x, y) < 0 and comparator(true)(x, y) > 0; the value compared
\* is semitones(a) - semitones(b), reversed when descending.
C5_Comparator ==
  (last = "comparator" /\ IntFields(a) /\ IntFields(b)) =>
    /\ result = IF Truthy(num)
                  THEN JsSub(semitones(b), semitones(a))
                  ELSE JsSub(semitones(a), semitones(b))
    /\ (IsNum(semitones(a)) /\ IsNum(semitones(b))
          /\ semitones(a).n < semitones(b).n) =>
         /\ IsNum(result)
         /\ IF Truthy(num) THEN result.n > 0 ELSE result.n < 0

C5_Witness ==
  /\ last = "comparator"
  /\ Truthy(num)
  /\ IntFields(a)
  /\ IntFields(b)
  /\ IsNum(semitones(a))
  /\ IsNum(semitones(b))
  /\ semitones(a).n < semitones(b).n
  /\ IsNum(result)
  /\ result.n > 0

\* C6: setDefaultOctave returns a pitch whose octave is set unchanged and
\* otherwise sets the octave; applied again with any octave to its own
\* result for a pitch without octave, it returns that result.
C6_SetDefaultOctave ==
  (last \in {"setDefaultOctave", "setDefaultOctavePartial"} /\ IsTuple(a)) =>
    /\ HasOct(a) => result = a
    /\ (NoOct(a) /\ IsNum(num)) =>
         /\ result = Arr(<<Idx(a, 0), Idx(a, 1), num>>)
         /\ \A n2 \in Octs : IsNum(n2) => setDefaultOctave(n2, result) = result

C6_Witness ==
  /\ last = "setDefaultOctave"
  /\ NoOct(a)
  /\ IsNum(num)
  /\ Oct(result) = num
  /\ \E n2 \in Octs : IsNum(n2) /\ n2 # num /\ setDefaultOctave(n2, result) = result

\* C7: setOctave(n, p) returns the new tuple (p[0], p[1], n) and leaves p as
\* it was, called directly or through the function setOctave(n) returns.
C7_SetOctave ==
  (last \in {"setOctave", "setOctavePartial"} /\ IsTuple(a)) =>
    /\ result = Arr(<<Idx(a, 0), Idx(a, 1), num>>)
    /\ Oct(result) = num
    /\ aPost = a

C7_Witness ==
  /\ last = "setOctave"
  /\ IsTuple(a)
  /\ Oct(a) # num
  /\ Oct(result) = num
  /\ aPost = a

\* C8 (as stated): multiply(1, a) = a, and multiply(0, a) is the pair (0, 0)
\* mapped through the codec, whatever a is.
C8_MultiplyZeroPair ==
  (last = "multiply" /\ IsTuple(a)) =>
    /\ num = Num(1) => result = a
    /\ num = Num(0) => result = toPitch(Arr(<<Num(0), Num(0)>>))

\* C8 (amended): multiply(1, a) = a; multiply(0, a) is the pair (0, 0)
\* mapped through the codec when a's octave is an integer, and the pair
\* (0, null) mapped through the codec when a's octave is null.
C8_Multiply ==
  (last = "multiply" /\ IsTuple(a)) =>
    /\ num = Num(1) => result = a
    /\ num = Num(0) =>
         /\ coord = Arr(<<Num(0), IF NoOct(a) THEN Null ELSE Num(0)>>)
         /\ result = Arr(<<Num(0), Num(0), IF NoOct(a) THEN Null ELSE Num(0)>>)

C8_Witness ==
  /\ last = "multiply"
  /\ num = Num(0)
  /\ NoOct(a)
  /\ a # Arr(<<Num(0), Num(0), Null>>)
  /\ result = Arr(<<Num(0), Num(0), Null>>)

\* C9: the documented results: add([3,0,0],[4,0,0]) = [0,0,1],
\* subtract([4,0,0],[3,0,0]) = [1,0,0] and multiply(2,[4,0,0]) = [1,0,1].
C9_Examples ==
  /\ (last = "add" /\ a = Tuple3(3, 0, 0) /\ b = Tuple3(4, 0, 0)) =>
       result = Tuple3(0, 0, 1)
  /\ (last = "subtract" /\ a = Tuple3(4, 0, 0) /\ b = Tuple3(3, 0, 0)) =>
       result = Tuple3(1, 0, 0)
  /\ (last = "multiply" /\ num = Num(2) /\ a = Tuple3(4, 0, 0)) =>
       result = Tuple3(1, 0, 1)

\* C10 (as stated): semitones of a tuple whose octave slot is null is not a
\* number.
C10_NullOctaveNotNumber ==
  (last = "semitones" /\ NoOct(a)) => ~IsNum(result)

\* C10 (amended): semitones of a tuple of two integers whose octave slot is
\* null takes the octave as 0: it is the integer SEMITONES[p[0] % 7] + p[1]
\* when p[0] is non-negative or a multiple of 7, and NaN otherwise; it is
\* never an error.
C10_NullOctaveAsZero ==
  (last = "semitones" /\ NoOct(a)) =>
    result = IF RemInTable(a)
               THEN Num(SEMITONES[(Idx(a, 0).n % 7) + 1] + Idx(a, 1).n)
               ELSE NaN

C10_Witness ==
  /\ last = "semitones"
  /\ NoOct(a)
  /\ Idx(a, 0) = Num(1)
  /\ Idx(a, 1) = Num(1)
  /\ result = Num(3)

====
